---- MODULE Spec2Model ----
(***************************************************************************)
(* create_background.py: a linear script that composes the DMG window      *)
(* background (canvas, arrow line, arrowhead, centred instruction text)    *)
(* and writes it to 'dmg-background.png'.                                  *)
(*                                                                         *)
(* The script is modelled statement by statement.  Every library call may  *)
(* raise; only the preferred-font load sits inside try/except.  The file   *)
(* system and the fonts' metrics are the environment.  The canvas is kept  *)
(* as its background plus the list of drawing operations applied to it     *)
(* (pixels are computed from that list by PixelAt).  A second execution    *)
(* of the script (Rerun) starts from a fresh process state on the file     *)
(* system the first one left behind.                                       *)
(***************************************************************************)
EXTENDS Integers, Sequences, FiniteSets, TLC

VARIABLES
    pc,        \* the statement about to execute, or "done" / "fatal"
    img,       \* the canvas (line 11)
    draw,      \* the drawing context bound to img (line 12)
    font,      \* the resolved font handle (lines 34-37)
    bbox,      \* result of draw.textbbox (line 40)
    text_x,    \* line 42
    text_y,    \* line 43
    fs,        \* file system: file name -> content
    stdout,    \* lines printed by this execution
    trace,     \* library calls made by this execution, in order, with outcome
    metrics,   \* environment: font -> bounding box of the instruction at (0,0)
    run,       \* number of the current execution
    fs0,       \* file system as it was when the current execution started
    prev       \* outcome of the previous execution

vars == <<pc, img, draw, font, bbox, text_x, text_y, fs, stdout, trace,
          metrics, run, fs0, prev>>

(***************************** bounds **************************************)
MaxRuns == 2
MaxBearing == 1

(************************* program constants *******************************)
width == 600
height == 400
bg_color == <<245, 245, 245>>
text_color == <<100, 100, 100>>
arrow_color == <<0, 122, 255>>
app_x == 150
app_y == 180
folder_x == 450
folder_y == 180
arrow_start_x == app_x + 80
\* The arrow end offset applied with the wrong sign.
arrow_end_x_past == folder_x + 80
arrow_end_x == folder_x - 80
arrow_y == app_y + 50
LineWidth == 4
HeadLength == 15
HeadHalfWidth == 8
BottomOffset == 50
instruction == "Drag the app to the Applications folder"
FontPath == "/System/Library/Fonts/Helvetica.ttc"
FontSize == 18
OutPath == "dmg-background.png"
\* The line printed (line 49); its leading check-mark glyph is left out.
Confirmation == "Background created"

(***************************** environment *********************************)
OtherPath == "README.md"
FileNames == {OutPath, FontPath, OtherPath}

Absent == [kind |-> "absent"]
FontFile == [kind |-> "font"]
OtherFile == [kind |-> "data"]
Partial == [kind |-> "partial"]

PreferredFont == [path |-> FontPath, size |-> FontSize]
DefaultFont == [path |-> "<default>", size |-> 0]
NoFont == [path |-> "<unset>", size |-> 0]
Fonts == {PreferredFont, DefaultFont}

\* The boxes a font may measure the instruction as: (x0, y0, x1, y1) with a
\* left edge within MaxBearing of the origin, an even or an odd width, and
\* the vertical extent of a small bitmap face or of an 18-point outline face.
Widths == {234, 321}
VerticalExtents == {<<0, 11>>, <<4, 22>>}
BBoxes == {<<x0, v[1], x0 + w, v[2]>> :
              x0 \in (0 - MaxBearing)..MaxBearing, w \in Widths,
              v \in VerticalExtents}
NoBBox == <<>>

NoImage == [mode |-> "none", size |-> <<0, 0>>, bg |-> <<0, 0, 0>>, ops |-> <<>>]
NoPrev == [done |-> FALSE, font |-> NoFont, content |-> Absent]

(******************************* canvas ************************************)
\* Image.new(mode, size, color): a canvas filled with one colour.
ImageNew(mode, size, color) ==
    [mode |-> mode, size |-> size, bg |-> color, ops |-> <<>>]

Min(a, b) == IF a <= b THEN a ELSE b
Max(a, b) == IF a >= b THEN a ELSE b

\* Twice the signed area of the triangle (a, b, p).
Cross(a, b, p) ==
    (b[1] - a[1]) * (p[2] - a[2]) - (b[2] - a[2]) * (p[1] - a[1])

\* The pixels a horizontal line of the given stroke width paints: the span
\* between its end points, the stroke laid around the line's row.
LineCovers(op, x, y) ==
    /\ op.xy[2] = op.xy[4]
    /\ Min(op.xy[1], op.xy[3]) <= x
    /\ x <= Max(op.xy[1], op.xy[3])
    /\ op.xy[2] - (op.width \div 2) <= y
    /\ y <= op.xy[2] + ((op.width - 1) \div 2)

\* The pixels a filled triangle paints: its interior and its edges.
PolygonCovers(op, x, y) ==
    LET a == op.pts[1]
        b == op.pts[2]
        c == op.pts[3]
        p == <<x, y>>
        d1 == Cross(a, b, p)
        d2 == Cross(b, c, p)
        d3 == Cross(c, a, p)
    IN  \/ (d1 >= 0 /\ d2 >= 0 /\ d3 >= 0)
        \/ (d1 <= 0 /\ d2 <= 0 /\ d3 <= 0)

\* The pixels text may paint: the font's bounding box of the string, moved
\* to the draw position.
TextCovers(op, x, y) ==
    /\ op.xy[1] + op.box[1] <= x
    /\ x < op.xy[1] + op.box[3]
    /\ op.xy[2] + op.box[2] <= y
    /\ y < op.xy[2] + op.box[4]

Covers(op, x, y) ==
    CASE op.kind = "line" -> LineCovers(op, x, y)
      [] op.kind = "polygon" -> PolygonCovers(op, x, y)
      [] op.kind = "text" -> TextCovers(op, x, y)

\* Colour of pixel (x, y): the fill of the last operation that painted it,
\* the background where none did.
RECURSIVE Paint(_, _, _, _)
Paint(ops, n, x, y) ==
    IF n = 0 THEN <<>>
    ELSE IF Covers(ops[n], x, y) THEN ops[n].fill
    ELSE Paint(ops, n - 1, x, y)

PixelAt(canvas, x, y) ==
    LET c == Paint(canvas.ops, Len(canvas.ops), x, y)
    IN  IF c = <<>> THEN canvas.bg ELSE c

\* img.save: the PNG encoding of a canvas (format, mode, size, pixel data).
EncodePNG(canvas) ==
    [kind |-> "png", mode |-> canvas.mode, size |-> canvas.size,
     data |-> [bg |-> canvas.bg, ops |-> canvas.ops]]

\* The file opened for appending: new data lands behind what was there.
Appended(old, data) ==
    IF old = [kind |-> "absent"] THEN data
    ELSE [kind |-> "concatenated", first |-> old, second |-> data]

\* The file is opened for writing, truncated, and holds the new data only.
Written(old, data) == data

(****************************** the script *********************************)
\* Program order with the save moved in front of the text drawing.
NextStmtSaveEarly(stmt) ==
    CASE stmt = "Image.new" -> "ImageDraw.Draw"
      [] stmt = "ImageDraw.Draw" -> "draw.line"
      [] stmt = "draw.line" -> "draw.polygon"
      [] stmt = "draw.polygon" -> "ImageFont.truetype"
      [] stmt = "ImageFont.truetype" -> "draw.textbbox"
      [] stmt = "ImageFont.load_default" -> "draw.textbbox"
      [] stmt = "draw.textbbox" -> "img.save"
      [] stmt = "img.save" -> "draw.text"
      [] stmt = "draw.text" -> "print"
      [] stmt = "print" -> "done"

\* Program order with the confirmation printed before the save.
NextStmtPrintEarly(stmt) ==
    CASE stmt = "Image.new" -> "ImageDraw.Draw"
      [] stmt = "ImageDraw.Draw" -> "draw.line"
      [] stmt = "draw.line" -> "draw.polygon"
      [] stmt = "draw.polygon" -> "ImageFont.truetype"
      [] stmt = "ImageFont.truetype" -> "draw.textbbox"
      [] stmt = "ImageFont.load_default" -> "draw.textbbox"
      [] stmt = "draw.textbbox" -> "draw.text"
      [] stmt = "draw.text" -> "print"
      [] stmt = "print" -> "img.save"
      [] stmt = "img.save" -> "done"

\* Program order: the statement executed after stmt returns normally.
NextStmt(stmt) ==
    CASE stmt = "Image.new" -> "ImageDraw.Draw"
      [] stmt = "ImageDraw.Draw" -> "draw.line"
      [] stmt = "draw.line" -> "draw.polygon"
      [] stmt = "draw.polygon" -> "ImageFont.truetype"
      [] stmt = "ImageFont.truetype" -> "draw.textbbox"
      [] stmt = "ImageFont.load_default" -> "draw.textbbox"
      [] stmt = "draw.textbbox" -> "draw.text"
      [] stmt = "draw.text" -> "img.save"
      [] stmt = "img.save" -> "print"
      [] stmt = "print" -> "done"

\* The try block without its handler: the font error ends the process.
OnFontErrorUncaught == "fatal"

\* The bare except of lines 36-37: where control goes when the try body raises.
OnFontError == "ImageFont.load_default"

\* Every statement wrapped in a handler that swallows the error and goes on.
OnErrorResume(stmt) ==
    CASE stmt = "Image.new" -> "ImageDraw.Draw"
      [] stmt = "ImageDraw.Draw" -> "draw.line"
      [] stmt = "draw.line" -> "draw.polygon"
      [] stmt = "draw.polygon" -> "ImageFont.truetype"
      [] stmt = "ImageFont.load_default" -> "draw.textbbox"
      [] stmt = "draw.textbbox" -> "draw.text"
      [] stmt = "draw.text" -> "img.save"
      [] stmt = "img.save" -> "print"

\* No handler encloses any other statement: the exception ends the process.
OnError(stmt) == "fatal"

\* The statements outside the try block whose library call can raise.
Unprotected == {"Image.new", "ImageDraw.Draw", "draw.line", "draw.polygon",
                "ImageFont.load_default", "draw.textbbox", "draw.text"}

\* A library call as the trace records it: the statement, whether it returned
\* or raised, and the font handle it was given (NoFont when it takes none).
Returned(stmt, f) == [call |-> stmt, ok |-> TRUE, font |-> f]
Raised(stmt) == [call |-> stmt, ok |-> FALSE, font |-> NoFont]

\* stmt executes and returns normally.
Step(stmt, f) ==
    /\ pc = stmt
    /\ pc' = NextStmt(stmt)
    /\ trace' = Append(trace, Returned(stmt, f))

\* The arrowhead's vertices (lines 26-30).
ArrowHead ==
    << <<arrow_end_x, arrow_y>>,
       <<arrow_end_x - HeadLength, arrow_y - HeadHalfWidth>>,
       <<arrow_end_x - HeadLength, arrow_y + HeadHalfWidth>> >>

\* The text laid on the arrow's row instead of near the bottom edge.
TextYOnArrow == arrow_y

TextX(box) == (width - (box[3] - box[1])) \div 2
TextY == height - BottomOffset

\* draw.text called without the resolved handle: it falls back to the default.
DrawFontDefault == DefaultFont

\* The font handle passed to draw.textbbox and to draw.text.
MeasureFont == font
DrawFont == font

\* Font f measures the instruction as box b: first use fixes f's metrics.
Measures(f, b) ==
    /\ f \in Fonts
    /\ metrics[f] \in {NoBBox, b}

Init ==
    /\ pc = "Image.new"
    /\ img = NoImage
    /\ draw = FALSE
    /\ font = NoFont
    /\ bbox = NoBBox
    /\ text_x = 0
    /\ text_y = 0
    /\ fs \in {[f \in FileNames |->
                   IF f = FontPath THEN ff
                   ELSE IF f = OtherPath THEN OtherFile ELSE Absent] :
               ff \in {FontFile, Absent}}
    /\ stdout = <<>>
    /\ trace = <<>>
    /\ metrics = [f \in Fonts |-> NoBBox]
    /\ run = 1
    /\ fs0 = fs
    /\ prev = NoPrev

\* line 11
CreateCanvas ==
    /\ Step("Image.new", NoFont)
    /\ img' = ImageNew("RGB", <<width, height>>, bg_color)
    /\ UNCHANGED <<draw, font, bbox, text_x, text_y, fs, stdout, metrics,
                   run, fs0, prev>>

\* line 12
CreateDraw ==
    /\ Step("ImageDraw.Draw", NoFont)
    /\ draw' = TRUE
    /\ UNCHANGED <<img, font, bbox, text_x, text_y, fs, stdout, metrics,
                   run, fs0, prev>>

\* line 24
DrawLine ==
    /\ Step("draw.line", NoFont)
    /\ draw
    /\ img' = [img EXCEPT !.ops = Append(@,
                 [kind |-> "line",
                  xy |-> <<arrow_start_x, arrow_y, arrow_end_x, arrow_y>>,
                  fill |-> arrow_color, width |-> LineWidth])]
    /\ UNCHANGED <<draw, font, bbox, text_x, text_y, fs, stdout, metrics,
                   run, fs0, prev>>

\* lines 26-30
DrawPolygon ==
    /\ Step("draw.polygon", NoFont)
    /\ draw
    /\ img' = [img EXCEPT !.ops = Append(@,
                 [kind |-> "polygon", pts |-> ArrowHead, fill |-> arrow_color])]
    /\ UNCHANGED <<draw, font, bbox, text_x, text_y, fs, stdout, metrics,
                   run, fs0, prev>>

\* line 35, returning: the font file is read, never written.
LoadPreferredFont ==
    /\ Step("ImageFont.truetype", NoFont)
    /\ fs[FontPath] = FontFile
    /\ font' = PreferredFont
    /\ UNCHANGED <<img, draw, bbox, text_x, text_y, fs, stdout, metrics,
                   run, fs0, prev>>

\* line 35 raising (file missing, unreadable, unsupported, ...): line 36 catches.
PreferredFontFails ==
    /\ pc = "ImageFont.truetype"
    /\ pc' = OnFontError
    /\ trace' = Append(trace, Raised("ImageFont.truetype"))
    /\ UNCHANGED <<img, draw, font, bbox, text_x, text_y, fs, stdout, metrics,
                   run, fs0, prev>>

\* line 37
LoadDefaultFont ==
    /\ Step("ImageFont.load_default", NoFont)
    /\ font' = DefaultFont
    /\ UNCHANGED <<img, draw, bbox, text_x, text_y, fs, stdout, metrics,
                   run, fs0, prev>>

\* lines 40-43
MeasureText ==
    /\ Step("draw.textbbox", MeasureFont)
    /\ draw
    /\ \E b \in BBoxes :
          /\ Measures(MeasureFont, b)
          /\ metrics' = [metrics EXCEPT ![MeasureFont] = b]
          /\ bbox' = b
          /\ text_x' = TextX(b)
    /\ text_y' = TextY
    /\ UNCHANGED <<img, draw, font, fs, stdout, run, fs0, prev>>

\* line 45
DrawText ==
    /\ Step("draw.text", DrawFont)
    /\ draw
    /\ \E b \in BBoxes :
          /\ Measures(DrawFont, b)
          /\ metrics' = [metrics EXCEPT ![DrawFont] = b]
          /\ img' = [img EXCEPT !.ops = Append(@,
                       [kind |-> "text", xy |-> <<text_x, text_y>>,
                        text |-> instruction, fill |-> text_color,
                        font |-> DrawFont, box |-> b])]
    /\ UNCHANGED <<draw, font, bbox, text_x, text_y, fs, stdout, run, fs0, prev>>

\* The save aimed at another file of the directory.
SavePathOther == OtherPath

\* The path img.save writes to.
SavePath == OutPath

\* line 48, returning
Save ==
    /\ Step("img.save", NoFont)
    /\ fs' = [fs EXCEPT ![SavePath] = Written(@, EncodePNG(img))]
    /\ UNCHANGED <<img, draw, font, bbox, text_x, text_y, stdout, metrics,
                   run, fs0, prev>>

\* line 48 raising: the file is as it was (it could not be opened) or is left
\* partially written.
SaveFails ==
    /\ pc = "img.save"
    /\ pc' = OnError("img.save")
    /\ trace' = Append(trace, Raised("img.save"))
    /\ \E left \in {fs[SavePath], Partial} :
          fs' = [fs EXCEPT ![SavePath] = left]
    /\ UNCHANGED <<img, draw, font, bbox, text_x, text_y, stdout, metrics,
                   run, fs0, prev>>

\* line 49
PrintConfirmation ==
    /\ Step("print", NoFont)
    /\ stdout' = Append(stdout, Confirmation)
    /\ UNCHANGED <<img, draw, font, bbox, text_x, text_y, fs, metrics,
                   run, fs0, prev>>

\* A call outside the try block raises: nothing catches it.
Raise ==
    /\ pc \in Unprotected
    /\ pc' = OnError(pc)
    /\ trace' = Append(trace, Raised(pc))
    /\ UNCHANGED <<img, draw, font, bbox, text_x, text_y, fs, stdout, metrics,
                   run, fs0, prev>>

\* The script is run again: a new process, the file system and the installed
\* fonts as the previous execution left them.
Rerun ==
    /\ pc \in {"done", "fatal"}
    /\ run < MaxRuns
    /\ run' = run + 1
    /\ prev' = [done |-> (pc = "done"), font |-> font, content |-> fs[OutPath]]
    /\ fs0' = fs
    /\ pc' = "Image.new"
    /\ img' = NoImage
    /\ draw' = FALSE
    /\ font' = NoFont
    /\ bbox' = NoBBox
    /\ text_x' = 0
    /\ text_y' = 0
    /\ stdout' = <<>>
    /\ trace' = <<>>
    /\ UNCHANGED <<fs, metrics>>

Next ==
    \/ CreateCanvas
    \/ CreateDraw
    \/ DrawLine
    \/ DrawPolygon
    \/ LoadPreferredFont
    \/ PreferredFontFails
    \/ LoadDefaultFont
    \/ MeasureText
    \/ DrawText
    \/ Save
    \/ SaveFails
    \/ PrintConfirmation
    \/ Raise
    \/ Rerun

Spec == Init /\ [][Next]_vars

(************************* reading the trace *******************************)
\* Positions in the trace where call c was made / returned / raised.
Made(c) == {i \in DOMAIN trace : trace[i].call = c}
Ok(c) == {i \in Made(c) : trace[i].ok}
Failed(c) == {i \in Made(c) : ~trace[i].ok}

DrawCalls == {"draw.line", "draw.polygon", "draw.text"}
FontCalls == {"ImageFont.truetype", "ImageFont.load_default"}
AfterFont == {"draw.textbbox", "draw.text", "img.save", "print", "done"}

\* The trace with the font-resolution calls left out.
RECURSIVE WithoutFontCalls(_)
WithoutFontCalls(t) ==
    IF t = <<>> THEN <<>>
    ELSE IF Head(t).call \in FontCalls THEN WithoutFontCalls(Tail(t))
    ELSE <<Head(t).call>> \o WithoutFontCalls(Tail(t))

IsOutputPNG(c) ==
    /\ c.kind = "png"
    /\ c.mode = "RGB"
    /\ c.size = <<600, 400>>

\* A statement returning normally (used to ask whether the script can go on).
Proceeds ==
    \/ CreateCanvas \/ CreateDraw \/ DrawLine \/ DrawPolygon
    \/ LoadPreferredFont \/ LoadDefaultFont \/ MeasureText \/ DrawText
    \/ Save \/ PrintConfirmation

(******************************* claims ************************************)

\* C1: on both font paths, the canvas is saved only after the arrow line, the
\* arrowhead polygon and the instruction text have been drawn, it is saved at
\* most once, and nothing is drawn after the save; what the save wrote holds
\* exactly those three drawings.
C1_SaveAfterAllDrawing ==
    /\ Cardinality(Made("img.save")) <= 1
    /\ \A i \in Made("img.save") :
          /\ \A d \in DrawCalls : \E j \in Ok(d) : j < i
          /\ \A j \in DOMAIN trace : j > i => trace[j].call \notin DrawCalls
    /\ Ok("img.save") # {} =>
          /\ fs[OutPath].kind = "png"
          /\ Len(fs[OutPath].data.ops) = 3
          /\ fs[OutPath].data.ops[1].kind = "line"
          /\ fs[OutPath].data.ops[2].kind = "polygon"
          /\ fs[OutPath].data.ops[3].kind = "text"

\* C1 witness: a second execution saved on the fallback path after a first
\* one saved on the preferred-font path.
C1_Witness ==
    /\ run = 2
    /\ prev.done
    /\ prev.font = PreferredFont
    /\ font = DefaultFont
    /\ Ok("img.save") # {}

\* C2: a failing preferred-font load is caught: control goes to the default
\* font load, the default font is what the later steps use, every later step
\* can go on, and an execution that finishes on the fallback path has made the
\* same calls, written the 600x400 RGB PNG and printed the confirmation once.
C2_FontFailureNotPropagated ==
    Failed("ImageFont.truetype") # {} =>
        /\ trace[Len(trace)] = Raised("ImageFont.truetype") =>
              pc = "ImageFont.load_default"
        /\ pc \in AfterFont => font = DefaultFont
        /\ pc \notin {"done", "fatal"} => ENABLED Proceeds
        /\ pc = "done" =>
              /\ WithoutFontCalls(trace) =
                    <<"Image.new", "ImageDraw.Draw", "draw.line", "draw.polygon",
                      "draw.textbbox", "draw.text", "img.save", "print">>
              /\ \A i \in DOMAIN trace :
                    trace[i].ok \/ trace[i].call = "ImageFont.truetype"
              /\ IsOutputPNG(fs[OutPath])
              /\ fs[OutPath] = EncodePNG(img)
              /\ stdout = <<Confirmation>>

\* C2 witness: an execution finished although the font file is missing.
C2_Witness ==
    /\ pc = "done"
    /\ fs[FontPath] = Absent
    /\ Failed("ImageFont.truetype") # {}
    /\ font = DefaultFont

\* C3: a call other than the preferred-font load that raises is the last
\* thing the execution does: the process is in the fatal state, no call
\* follows it (so the fallback handler does not recover it), and no call is
\* made twice.
C3_OtherFailuresFatal ==
    /\ \A i \in DOMAIN trace :
          (~trace[i].ok /\ trace[i].call # "ImageFont.truetype") =>
              (i = Len(trace) /\ pc = "fatal")
    /\ pc = "fatal" =>
          /\ trace # <<>>
          /\ ~trace[Len(trace)].ok
          /\ trace[Len(trace)].call # "ImageFont.truetype"
    /\ \A i, j \in DOMAIN trace : trace[i].call = trace[j].call => i = j

\* C3 witness: the default font load raised after the preferred one had, and
\* the process died.
C3_Witness ==
    /\ pc = "fatal"
    /\ Failed("ImageFont.truetype") # {}
    /\ trace[Len(trace)] = Raised("ImageFont.load_default")

C5_OnlyOutputFileWritten ==
    /\ \A f \in FileNames \ {OutPath} : fs[f] = fs0[f]
    /\ Ok("img.save") = {} => fs[OutPath] \in {fs0[OutPath], Partial}
    /\ pc = "done" =>
          /\ fs[OutPath].kind = "png"
          /\ fs[OutPath].mode = "RGB"
          /\ fs[OutPath].size = <<600, 400>>

\* C5 witness: a finished execution created the file in a directory that did
\* not have it, with the font file present and read.
C5_Witness ==
    /\ pc = "done"
    /\ fs0[OutPath] = Absent
    /\ fs[OutPath].kind = "png"
    /\ font = PreferredFont
    /\ fs[FontPath] = FontFile

\* C6: a second execution starts from the state a first execution starts
\* from, can save over whatever file is there, and leaves exactly the
\* encoding of its own canvas; when the previous execution finished with the
\* same font, the file content is what that execution left.
C6_RerunIdempotent ==
    /\ (run >= 2 /\ pc = "Image.new") =>
          /\ img = NoImage
          /\ ~draw
          /\ font = NoFont
          /\ bbox = NoBBox
          /\ stdout = <<>>
          /\ trace = <<>>
    /\ (run >= 2 /\ pc = "img.save") => ENABLED Save
    /\ (run >= 2 /\ pc = "done") =>
          /\ fs[OutPath] = EncodePNG(img)
          /\ (prev.done /\ prev.font = font) => fs[OutPath] = prev.content

\* C6 witness: a second execution finished over the file of a finished first
\* one, both on the fallback path.
C6_Witness ==
    /\ run = 2
    /\ pc = "done"
    /\ prev.done
    /\ prev.font = font
    /\ font = DefaultFont
    /\ fs0[OutPath].kind = "png"

\* C7: the line drawn runs from (230,230) to (370,230), i.e. at y = app_y + 50
\* from x = app_x + 80 to x = folder_x - 80, with width 4; the polygon drawn
\* is the triangle with tip (370,230) and back vertices (355,222), (355,238):
\* symmetric about the line, tip at the larger x, and the back edge strictly
\* right of the line's start.
C7_ArrowGeometry ==
    /\ Len(img.ops) >= 1 =>
          /\ img.ops[1].kind = "line"
          /\ img.ops[1].xy = <<230, 230, 370, 230>>
          /\ img.ops[1].xy = <<app_x + 80, app_y + 50, folder_x - 80, app_y + 50>>
          /\ img.ops[1].width = 4
    /\ Len(img.ops) >= 2 =>
          LET line == img.ops[1].xy
              tip == img.ops[2].pts[1]
              up == img.ops[2].pts[2]
              down == img.ops[2].pts[3]
          IN  /\ img.ops[2].kind = "polygon"
              /\ img.ops[2].pts = << <<370, 230>>, <<355, 222>>, <<355, 238>> >>
              /\ tip = <<line[3], line[4]>>
              /\ up = <<line[3] - 15, line[4] - 8>>
              /\ down = <<line[3] - 15, line[4] + 8>>
              /\ up[1] = down[1]
              /\ tip[2] - up[2] = down[2] - tip[2]
              /\ tip[1] > up[1]
              /\ line[1] < up[1]

\* C7 witness: line and arrowhead are both on the canvas.
C7_Witness ==
    /\ Len(img.ops) = 2
    /\ pc = "ImageFont.truetype"

\* The margins the drawn text leaves to the canvas edges, for the box measured.
LeftMargin == text_x + bbox[1]
RightMargin == width - (text_x + bbox[3])
Abs(n) == IF n < 0 THEN 0 - n ELSE n

C9_PixelsAtSave ==
    pc = "img.save" =>
       /\ arrow_start_x = 230 /\ arrow_end_x = 370 /\ app_y + 50 = 230
       /\ \A x \in 230..370 : PixelAt(img, x, 230) = <<0, 122, 255>>
       /\ PixelAt(img, 10, 10) = <<245, 245, 245>>
       /\ \A i \in DOMAIN img.ops : ~Covers(img.ops[i], 10, 10)

\* C9 witness: the canvas about to be saved carries line, arrowhead and text.
C9_Witness ==
    /\ pc = "img.save"
    /\ Len(img.ops) = 3
    /\ img.ops[3].kind = "text"

\* C10: one font load returns per execution, before the text is measured;
\* the default font is loaded only right after the preferred load raised and
\* never after it returned; textbbox and text are given the same handle, the
\* preferred font if its load returned and the default font otherwise.
C10_OneFontHandle ==
    /\ Cardinality(Ok("ImageFont.truetype") \cup Ok("ImageFont.load_default")) <= 1
    /\ Cardinality(Made("ImageFont.truetype")) <= 1
    /\ pc \in AfterFont =>
          Cardinality(Ok("ImageFont.truetype") \cup Ok("ImageFont.load_default")) = 1
    /\ \A i \in Made("ImageFont.load_default") :
          i > 1 /\ trace[i - 1] = Raised("ImageFont.truetype")
    /\ Ok("ImageFont.truetype") # {} => Made("ImageFont.load_default") = {}
    /\ \A i \in Made("draw.textbbox") \cup Made("draw.text") :
          trace[i].ok =>
             /\ trace[i].font = font
             /\ trace[i].font =
                   IF Ok("ImageFont.truetype") # {} THEN PreferredFont
                   ELSE DefaultFont
    /\ \A i \in DOMAIN img.ops :
          img.ops[i].kind = "text" =>
             /\ img.ops[i].font = font
             /\ img.ops[i].box = bbox

\* C10 witness: text measured and drawn with the preferred font.
C10_Witness ==
    /\ Ok("draw.text") # {}
    /\ font = PreferredFont
    /\ img.ops[3].font = PreferredFont

====
